---- MODULE Spec2Model ----
(***************************************************************************)
(* Model of reviewer/views.py: the response normaliser parse_ai_response   *)
(* and the request handler home.                                           *)
(*                                                                         *)
(* A Python str is a sequence of one-character strings.  Messages built    *)
(* by f-strings are sequences whose elements are the literal pieces.       *)
(* A Python / JSON value is a record [t, s, n, keys, items]:               *)
(*   t = "null" | "true" | "false" | "num" | "str" | "list" | "dict"       *)
(*   s     the characters of a str                                         *)
(*   n     the value of a number                                           *)
(*   keys  the keys of a dict, in insertion order                          *)
(*   items the elements of a list, or the values of a dict (by key index)  *)
(* Python's None is the "null" value.                                      *)
(***************************************************************************)
EXTENDS Integers, Sequences, FiniteSets, TLC

VARIABLES
    GROQ_API_KEY,  \* module global: os.getenv("GROQ_API_KEY")
    client,        \* module global: the Groq client, or None
    pc,            \* "idle", "calling" (home blocked in the call), "rendered"
    request,       \* the request being handled: method and form field code
    user_code,     \* home's local user_code
    reply,         \* what the model answered: a body, its fence and padding
    ai_output,     \* home's local ai_output
    ai_result,     \* home's local ai_result
    context,       \* home's context dict
    calls,         \* calls of client.chat.completions.create by this request
    outcome,       \* how the request went: "get", "empty-input",
                   \* "misconfigured", "pending", "returned", "malformed",
                   \* "raised" ("idle" before the first request)
    served         \* requests rendered so far

vars == <<GROQ_API_KEY, client, pc, request, user_code, reply, ai_output,
          ai_result, context, calls, outcome, served>>

\* ------------------------------------------------------------------ values

Val(t, s, n, keys, items) ==
    [t |-> t, s |-> s, n |-> n, keys |-> keys, items |-> items]

None == Val("null", <<>>, 0, <<>>, <<>>)

JBool(b) == Val(IF b THEN "true" ELSE "false", <<>>, 0, <<>>, <<>>)

JNum(n) == Val("num", <<>>, n, <<>>, <<>>)

JStr(s) == Val("str", s, 0, <<>>, <<>>)

JList(items) == Val("list", <<>>, 0, <<>>, items)

JDict(keys, items) == Val("dict", <<>>, 0, keys, items)

EmptyList == JList(<<>>)

EmptyStr == JStr(<<>>)

\* bool(v)
Truthy(v) ==
    CASE v.t = "null" -> FALSE
      [] v.t = "false" -> FALSE
      [] v.t = "true" -> TRUE
      [] v.t = "num" -> v.n # 0
      [] v.t = "str" -> Len(v.s) > 0
      [] v.t = "list" -> Len(v.items) > 0
      [] v.t = "dict" -> Len(v.keys) > 0

\* ------------------------------------------------------------------ str

K_syntax_errors == <<"s","y","n","t","a","x","_","e","r","r","o","r","s">>

K_logical_errors == <<"l","o","g","i","c","a","l","_","e","r","r","o","r","s">>

K_key_improvements ==
    <<"k","e","y","_","i","m","p","r","o","v","e","m","e","n","t","s">>

K_fixed_code == <<"f","i","x","e","d","_","c","o","d","e">>

K_explanation == <<"e","x","p","l","a","n","a","t","i","o","n">>

K_error == <<"e","r","r","o","r">>

K_raw == <<"r","a","w">>

S_errors == <<"e","r","r","o","r","s">>

S_improvements == <<"i","m","p","r","o","v","e","m","e","n","t","s">>

\* the backtick character (the string lexer has no backtick, so it is named)
Backquote == "BACKQUOTE"

FenceJson == <<Backquote, Backquote, Backquote, "j", "s", "o", "n">>

Fence == <<Backquote, Backquote, Backquote>>

\* characters removed by str.strip()
PyWhitespace == {" ", "\n", "\t", "\r"}

RECURSIVE LStrip(_)
LStrip(s) ==
    IF Len(s) > 0 /\ s[1] \in PyWhitespace THEN LStrip(Tail(s)) ELSE s

RECURSIVE RStrip(_)
RStrip(s) ==
    IF Len(s) > 0 /\ s[Len(s)] \in PyWhitespace
    THEN RStrip(SubSeq(s, 1, Len(s) - 1))
    ELSE s

\* s.strip()
Strip(s) == RStrip(LStrip(s))

\* s.startswith(p)
StartsWith(s, p) == Len(s) >= Len(p) /\ SubSeq(s, 1, Len(p)) = p

\* s[a:-b] for a, b >= 0 (Python indices, 0-based, end exclusive)
SliceFromTo(s, a, b) ==
    IF Len(s) - b <= a THEN <<>> ELSE SubSeq(s, a + 1, Len(s) - b)

\* sub in s  (substring test on str)
Contains(s, sub) ==
    \E i \in 1..(Len(s) - Len(sub) + 1) : SubSeq(s, i, i + Len(sub) - 1) = sub

\* ------------------------------------------------------------------ dict

InSeq(x, seq) == \E i \in 1..Len(seq) : seq[i] = x

IndexOf(x, seq) == CHOOSE i \in 1..Len(seq) : seq[i] = x

\* key in d
HasKey(d, k) == InSeq(k, d.keys)

\* d[key]
Get(d, k) == d.items[IndexOf(k, d.keys)]

\* d[key] = v : an existing key keeps its position, a new key is appended
SetItem(d, k, v) ==
    IF HasKey(d, k)
    THEN JDict(d.keys, [d.items EXCEPT ![IndexOf(k, d.keys)] = v])
    ELSE JDict(Append(d.keys, k), Append(d.items, v))

\* ------------------------------------------------------------------ json.loads

JsonWs == {" ", "\n", "\t", "\r"}

Digits == {"0","1","2","3","4","5","6","7","8","9"}

DigitVal(c) ==
    CASE c = "0" -> 0 [] c = "1" -> 1 [] c = "2" -> 2 [] c = "3" -> 3
      [] c = "4" -> 4 [] c = "5" -> 5 [] c = "6" -> 6 [] c = "7" -> 7
      [] c = "8" -> 8 [] c = "9" -> 9

\* a decoder step: ok, the value, the index after it (1-based); on failure
\* msg and the 1-based index the JSONDecodeError reports
Ok(v, end) == [ok |-> TRUE, val |-> v, end |-> end, msg |-> ""]

Fail(msg, pos) == [ok |-> FALSE, val |-> None, end |-> pos, msg |-> msg]

RECURSIVE SkipWs(_, _)
SkipWs(s, i) ==
    IF i <= Len(s) /\ s[i] \in JsonWs THEN SkipWs(s, i + 1) ELSE i

CharAt(s, i) == IF i >= 1 /\ i <= Len(s) THEN s[i] ELSE ""

RECURSIVE FindQuote(_, _)
FindQuote(s, i) ==
    IF i > Len(s) THEN 0
    ELSE IF s[i] = "\"" THEN i ELSE FindQuote(s, i + 1)

\* scanstring: s[i] is the opening quote (escape sequences are not modelled)
ScanString(s, i) ==
    LET j == FindQuote(s, i + 1)
    IN  IF j = 0 THEN Fail("Unterminated string starting at", i)
        ELSE Ok(JStr(SubSeq(s, i + 1, j - 1)), j + 1)

RECURSIVE DigitsEnd(_, _)
DigitsEnd(s, i) ==
    IF i <= Len(s) /\ s[i] \in Digits THEN DigitsEnd(s, i + 1) ELSE i

RECURSIVE DigitsValue(_, _, _, _)
DigitsValue(s, i, end, acc) ==
    IF i >= end THEN acc
    ELSE DigitsValue(s, i + 1, end, acc * 10 + DigitVal(s[i]))

\* NUMBER_RE, integer part: -?(0|[1-9][0-9]*)
ScanNumber(s, i) ==
    LET neg == CharAt(s, i) = "-"
        d == IF neg THEN i + 1 ELSE i
        end == IF CharAt(s, d) = "0" THEN d + 1 ELSE DigitsEnd(s, d)
        n == DigitsValue(s, d, end, 0)
    IN  IF CharAt(s, d) \notin Digits THEN Fail("Expecting value", i)
        ELSE Ok(JNum(IF neg THEN 0 - n ELSE n), end)

MatchAt(s, i, lit) ==
    i + Len(lit) - 1 <= Len(s) /\ SubSeq(s, i, i + Len(lit) - 1) = lit

RECURSIVE ScanOnce(_, _)
RECURSIVE ObjectMembers(_, _, _)
RECURSIVE ArrayItems(_, _, _)

\* JSONObject's loop: s[i] is the opening quote of the next key
ObjectMembers(s, i, d) ==
    LET k == ScanString(s, i)
        c == SkipWs(s, k.end)
        v == ScanOnce(s, SkipWs(s, c + 1))
        e == SkipWs(s, v.end)
        q == SkipWs(s, e + 1)
    IN  IF ~k.ok THEN k
        ELSE IF CharAt(s, c) # ":" THEN Fail("Expecting ':' delimiter", c)
        ELSE IF ~v.ok THEN v
        ELSE IF CharAt(s, e) = "}"
             THEN Ok(SetItem(d, k.val.s, v.val), e + 1)
        ELSE IF CharAt(s, e) # "," THEN Fail("Expecting ',' delimiter", e)
        ELSE IF CharAt(s, q) # "\""
             THEN Fail("Expecting property name enclosed in double quotes", q)
        ELSE ObjectMembers(s, q, SetItem(d, k.val.s, v.val))

\* JSONObject: i is the index after the opening brace
JSONObject(s, i) ==
    LET j == SkipWs(s, i)
    IN  IF CharAt(s, j) = "\"" THEN ObjectMembers(s, j, JDict(<<>>, <<>>))
        ELSE IF CharAt(s, j) = "}" THEN Ok(JDict(<<>>, <<>>), j + 1)
        ELSE Fail("Expecting property name enclosed in double quotes", j)

\* JSONArray's loop: i is the index of the next element
ArrayItems(s, i, items) ==
    LET v == ScanOnce(s, i)
        e == SkipWs(s, v.end)
    IN  IF ~v.ok THEN v
        ELSE IF CharAt(s, e) = "]" THEN Ok(JList(Append(items, v.val)), e + 1)
        ELSE IF CharAt(s, e) # "," THEN Fail("Expecting ',' delimiter", e)
        ELSE ArrayItems(s, SkipWs(s, e + 1), Append(items, v.val))

\* JSONArray: i is the index after the opening bracket
JSONArray(s, i) ==
    LET j == SkipWs(s, i)
    IN  IF CharAt(s, j) = "]" THEN Ok(EmptyList, j + 1)
        ELSE ArrayItems(s, j, <<>>)

\* scan_once
ScanOnce(s, i) ==
    LET c == CharAt(s, i)
    IN  CASE c = "\"" -> ScanString(s, i)
          [] c = "{" -> JSONObject(s, i + 1)
          [] c = "[" -> JSONArray(s, i + 1)
          [] c = "n" /\ MatchAt(s, i, <<"n","u","l","l">>) -> Ok(None, i + 4)
          [] c = "t" /\ MatchAt(s, i, <<"t","r","u","e">>) ->
                Ok(JBool(TRUE), i + 4)
          [] c = "f" /\ MatchAt(s, i, <<"f","a","l","s","e">>) ->
                Ok(JBool(FALSE), i + 5)
          [] c \in Digits \cup {"-"} -> ScanNumber(s, i)
          [] OTHER -> Fail("Expecting value", i)

\* json.loads(s): a value surrounded by whitespace and nothing else
json_loads(s) ==
    LET r == ScanOnce(s, SkipWs(s, 1))
        end == SkipWs(s, r.end)
    IN  IF ~r.ok THEN r
        ELSE IF end # Len(s) + 1 THEN Fail("Extra data", end)
        ELSE r

\* str(e) of a JSONDecodeError: the message and the 0-based position
DecodeErrorStr(r) == <<r.msg, " (char ", ToString(r.end - 1), ")">>

\* ------------------------------------------------------------------ parse_ai_response

expected_keys ==
    <<K_syntax_errors, K_logical_errors, K_key_improvements, K_fixed_code,
      K_explanation>>

\* a slip: every missing key is filled with ""
DefaultFor_AlwaysStr(key) == EmptyStr

\* [] if "errors" in key or "improvements" in key else ""
DefaultFor(key) ==
    IF Contains(key, S_errors) \/ Contains(key, S_improvements)
    THEN EmptyList
    ELSE EmptyStr

\* a slip: the leading marker is removed, the closing marker is left
StripFence_KeepsClosingMarker(content) ==
    IF StartsWith(content, FenceJson)
    THEN Strip(SliceFromTo(content, 7, 0))
    ELSE IF StartsWith(content, Fence)
    THEN Strip(SliceFromTo(content, 3, 0))
    ELSE content

\* the fence removal of lines 25-28, applied to the stripped text
StripFence(content) ==
    IF StartsWith(content, FenceJson)
    THEN Strip(SliceFromTo(content, 7, 3))
    ELSE IF StartsWith(content, Fence)
    THEN Strip(SliceFromTo(content, 3, 3))
    ELSE content

\* a slip: fixed_code is defaulted like the three lists
ErrorRecord_ListFixedCode(message, raw) ==
    JDict(<<K_error, K_raw, K_syntax_errors, K_logical_errors,
            K_key_improvements, K_fixed_code, K_explanation>>,
          <<JStr(message), raw, EmptyList, EmptyList, EmptyList, EmptyList,
            EmptyStr>>)

\* the dict both except clauses return
ErrorRecord(message, raw) ==
    JDict(<<K_error, K_raw, K_syntax_errors, K_logical_errors,
            K_key_improvements, K_fixed_code, K_explanation>>,
          <<JStr(message), raw, EmptyList, EmptyList, EmptyList, EmptyStr,
            EmptyStr>>)

Returned(v) == [raised |-> FALSE, val |-> v, exc |-> <<>>]

Raised(exc) == [raised |-> TRUE, val |-> None, exc |-> <<exc>>]

\* the for loop over expected_keys from the i-th key on.  parsed_data is
\* whatever json.loads returned: "key not in" is a key test on a dict, an
\* element test on a list, a substring test on a str and a TypeError on
\* anything else; the item assignment is a TypeError on a list and a str.
RECURSIVE EnsureKeys(_, _)
EnsureKeys(parsed_data, i) ==
    IF i > Len(expected_keys) THEN Returned(parsed_data)
    ELSE LET key == expected_keys[i]
         IN  CASE parsed_data.t = "dict" ->
                    IF HasKey(parsed_data, key)
                    THEN EnsureKeys(parsed_data, i + 1)
                    ELSE EnsureKeys(SetItem(parsed_data, key, DefaultFor(key)),
                                    i + 1)
               [] parsed_data.t = "list" ->
                    IF InSeq(JStr(key), parsed_data.items)
                    THEN EnsureKeys(parsed_data, i + 1)
                    ELSE Raised("list indices must be integers or slices, not str")
               [] parsed_data.t = "str" ->
                    IF Contains(parsed_data.s, key)
                    THEN EnsureKeys(parsed_data, i + 1)
                    ELSE Raised("'str' object does not support item assignment")
               [] OTHER -> Raised("argument of this type is not iterable")

\* lines 31-61: what parse_ai_response returns once json.loads has
\* answered r (a value or a JSONDecodeError) for the text of output
Normalize(r, output) ==
    LET e == EnsureKeys(r.val, 1)
    IN  IF ~r.ok
        THEN ErrorRecord(<<"Failed to parse AI response as JSON: ">>
                           \o DecodeErrorStr(r), output)
        ELSE IF e.raised
        THEN ErrorRecord(<<"Unexpected error: ">> \o e.exc, output)
        ELSE e.val

\* ai_output is a str, or None (then .strip() raises AttributeError)
parse_ai_response(output) ==
    IF output.t # "str"
    THEN ErrorRecord(<<"Unexpected error: ",
                       "'NoneType' object has no attribute 'strip'">>, output)
    ELSE Normalize(json_loads(StripFence(Strip(output.s))), output)

\* ------------------------------------------------------------------ home

Groq == JStr(<<"Groq">>)

InitialContext ==
    [user_code |-> EmptyStr, ai_result |-> None, error |-> None,
     debug |-> None]

\* request.POST.get("code", "")
PostGet(req) == IF req.code.t = "null" THEN EmptyStr ELSE req.code

\* the two messages of lines 78 and 80 (without their leading symbol)
EmptyInputMessage == JStr(<<"Please enter some code to review.">>)

MisconfiguredMessage ==
    JStr(<<"API key not configured. Please check your .env file.">>)

\* a slip: the configuration is tested before the code
Validate_ConfigFirst(code, key, cl) ==
    IF ~Truthy(key) \/ ~Truthy(cl) THEN "misconfigured"
    ELSE IF ~Truthy(code) THEN "empty-input"
    ELSE "call"

\* a slip: the configuration is not tested
Validate_NoConfigCheck(code, key, cl) ==
    IF ~Truthy(code) THEN "empty-input" ELSE "call"

\* the branch lines 77-81 take: "empty-input", "misconfigured" or "call"
Validate(code, key, cl) ==
    IF ~Truthy(code) THEN "empty-input"
    ELSE IF ~Truthy(key) \/ ~Truthy(cl) THEN "misconfigured"
    ELSE "call"

\* the except clause of lines 133-148; desc is str(e)
ApiErrorContext(ctx, desc) ==
    [ctx EXCEPT
       !.error = JStr(<<"API Error: ">> \o desc),
       !.debug = JStr(<<"Traceback (most recent call last): ">> \o desc),
       !.ai_result =
           JDict(<<K_error, K_raw, K_syntax_errors, K_logical_errors,
                   K_key_improvements, K_fixed_code, K_explanation>>,
                 <<JStr(<<"API Error: ">> \o desc),
                   JStr(<<"Unable to get AI response.">>),
                   EmptyList, EmptyList, EmptyList, EmptyStr, EmptyStr>>)]

\* "error" in ai_result and ai_result["error"] (line 130): raises TypeError
\* when ai_result is a list or a str that contains "error"
ErrorCheck(result) ==
    CASE result.t = "dict" ->
           IF HasKey(result, K_error)
           THEN Returned(JBool(Truthy(Get(result, K_error))))
           ELSE Returned(JBool(FALSE))
      [] result.t = "list" ->
           IF InSeq(JStr(K_error), result.items)
           THEN Raised("list indices must be integers or slices, not str")
           ELSE Returned(JBool(FALSE))
      [] result.t = "str" ->
           IF Contains(result.s, K_error)
           THEN Raised("string indices must be integers")
           ELSE Returned(JBool(FALSE))
      [] OTHER -> Raised("argument of this type is not iterable")

\* a slip: the error of the result is surfaced whether it is set or not
AfterCall_AlwaysSurfaces(ctx, result) ==
    LET attached == [ctx EXCEPT !.ai_result = result]
    IN  IF result.t = "dict" /\ HasKey(result, K_error)
        THEN [attached EXCEPT !.error = Get(result, K_error)]
        ELSE [attached EXCEPT !.error = EmptyStr]

\* lines 126-131 and, when line 130 raises, the except clause
AfterCall(ctx, result) ==
    LET c == ErrorCheck(result)
        attached == [ctx EXCEPT !.ai_result = result]
    IN  IF c.raised THEN ApiErrorContext(attached, c.exc)
        ELSE IF c.val.t = "true"
        THEN [attached EXCEPT !.error = Get(result, K_error)]
        ELSE attached

\* ------------------------------------------------------------------ inputs

\* requests handled in one run of the process
MaxRequests == 2

\* whitespace characters around a response and around its fence markers
MaxPad == 1

DigitChar(d) == CHOOSE c \in Digits : DigitVal(c) = d

\* decimal text of an integer in -99..99
NumStr(n) ==
    LET a == IF n < 0 THEN 0 - n ELSE n
        digits == IF a < 10 THEN <<DigitChar(a)>>
                  ELSE <<DigitChar(a \div 10), DigitChar(a % 10)>>
    IN  IF n < 0 THEN <<"-">> \o digits ELSE digits

Quoted(s) == <<"\"">> \o s \o <<"\"">>

\* the JSON text of a value, without optional whitespace
RECURSIVE Dumps(_)
RECURSIVE DumpsItems(_, _)
RECURSIVE DumpsPairs(_, _, _)

DumpsItems(items, i) ==
    IF i > Len(items) THEN <<>>
    ELSE (IF i > 1 THEN <<",">> ELSE <<>>) \o Dumps(items[i])
         \o DumpsItems(items, i + 1)

DumpsPairs(keys, items, i) ==
    IF i > Len(keys) THEN <<>>
    ELSE (IF i > 1 THEN <<",">> ELSE <<>>) \o Quoted(keys[i]) \o <<":">>
         \o Dumps(items[i]) \o DumpsPairs(keys, items, i + 1)

Dumps(v) ==
    CASE v.t = "null" -> <<"n","u","l","l">>
      [] v.t = "true" -> <<"t","r","u","e">>
      [] v.t = "false" -> <<"f","a","l","s","e">>
      [] v.t = "num" -> NumStr(v.n)
      [] v.t = "str" -> Quoted(v.s)
      [] v.t = "list" -> <<"[">> \o DumpsItems(v.items, 1) \o <<"]">>
      [] v.t = "dict" -> <<"{">> \o DumpsPairs(v.keys, v.items, 1) \o <<"}">>

\* well-typed values for the five expected keys
FullValues ==
    <<JList(<<JStr(<<"e">>)>>), EmptyList,
      JList(<<JStr(<<"i">>), JStr(<<"j">>)>>), JStr(<<"c">>),
      JStr(<<"o","k">>)>>

\* the object that has exactly the expected keys whose index is in S
RECURSIVE SubDict(_, _)
SubDict(S, i) ==
    IF i = 0 THEN JDict(<<>>, <<>>)
    ELSE IF i \in S
    THEN SetItem(SubDict(S, i - 1), expected_keys[i], FullValues[i])
    ELSE SubDict(S, i - 1)

KeyNameList == JList([i \in 1..5 |-> JStr(expected_keys[i])])

KeyNameStr ==
    JStr(K_syntax_errors \o <<" ">> \o K_logical_errors \o <<" ">>
         \o K_key_improvements \o <<" ">> \o K_fixed_code \o <<" ">>
         \o K_explanation)

\* values a model may answer with besides the objects of SubDict
OtherValues ==
    { JDict(<<K_syntax_errors, K_fixed_code, <<"x">>>>,
            <<JNum(5), JList(<<JNum(-1)>>), None>>),
      JDict(<<K_error, K_raw>>, <<JStr(<<"b","o","o","m">>), JStr(<<"x">>)>>),
      JDict(<<K_error>>, <<EmptyStr>>),
      JDict(<<K_error, K_explanation>>, <<JNum(12), JBool(TRUE)>>),
      JDict(<<K_raw>>, <<JBool(FALSE)>>),
      JDict(<<K_fixed_code, K_fixed_code>>, <<JStr(<<"a">>), JStr(<<"b">>)>>),
      JDict(<<<<"a">>>>, <<JDict(<<K_error>>, <<JList(<<None>>)>>)>>),
      KeyNameList,
      JList(Append(KeyNameList.items, JStr(K_error))),
      JList(<<JNum(1), JStr(K_fixed_code)>>),
      EmptyList,
      KeyNameStr,
      JStr(<<"a","b","c">>),
      JStr(K_explanation),
      JNum(5), JNum(0), None, JBool(TRUE), JBool(FALSE) }

Values == { SubDict(S, 5) : S \in SUBSET (1..5) } \cup OtherValues

DropLast(s) == SubSeq(s, 1, Len(s) - 1)

\* texts that are not JSON, and JSON texts with optional whitespace
OtherBodies ==
    { <<>>,
      <<"n","o","t"," ","j","s","o","n">>,
      <<"j","s","o","n","{","}">>,
      <<"{","}"," ","x">>,
      <<"{"," ","}">>,
      <<"[","1"," ","2","]">>,
      <<"[","1",",","]">>,
      <<"{","\"","a","\""," ","1","}">>,
      <<"{","\"","a","\"",":","1",",","}">>,
      <<"{","\"","a","\"",":","}">>,
      <<"{","\"","a","\""," ",":","\n","0","1","}">>,
      <<"{","\"","a","\""," ",":","\n","[","]"," ","}">>,
      <<"\"","a","b">>,
      <<"n","u","l">>,
      <<"-">>,
      <<" ", "{", "}", "\n">>,
      FenceJson \o <<"\n">> \o Dumps(SubDict({5}, 5)) \o <<"\n">> \o Fence,
      DropLast(Dumps(SubDict(1..5, 5))),
      DropLast(Dumps(KeyNameList)) }

Bodies == { Dumps(v) : v \in Values } \cup OtherBodies

Pads ==
    { [i \in 1..k |-> c] : k \in 0..MaxPad, c \in {" ", "\n"} }

\* what separates a marker from the body: nothing or a line break
Seps == { <<>>, <<"\n">> }

\* how a response is fenced: not at all, in a tagged or an untagged block,
\* or with a leading marker that is never closed
Styles == {"bare", "json", "plain", "open-json", "open-plain"}

\* the text of a response: body b in a block of style st, with whitespace
\* lead and trail around the block and sep inside the markers
Wrap(st, lead, sep, trail, b) ==
    CASE st = "bare" -> lead \o b \o trail
      [] st = "json" -> lead \o FenceJson \o sep \o b \o sep \o Fence \o trail
      [] st = "plain" -> lead \o Fence \o sep \o b \o sep \o Fence \o trail
      [] st = "open-json" -> lead \o FenceJson \o sep \o b \o trail
      [] st = "open-plain" -> lead \o Fence \o sep \o b \o trail

\* a message without content (content is None)
NoContent ==
    [style |-> "none", lead |-> <<>>, sep |-> <<>>, trail |-> <<>>,
     body |-> <<>>]

Replies ==
    {NoContent} \cup
    [style : Styles, lead : Pads, sep : Seps, trail : Pads, body : Bodies]

\* response.choices[0].message.content: a str, or None
Content(r) ==
    IF r.style = "none" THEN None
    ELSE JStr(Wrap(r.style, r.lead, r.sep, r.trail, r.body))

\* str(e) of an exception raised by client.chat.completions.create
CallErrors == { <<>>, <<"Connection error.">>, <<"Error code: 401">> }

\* the value of the form field "code"; None when the field is missing
Codes ==
    { None, EmptyStr, JStr(<<" ", "\n">>), JStr(<<"x">>),
      JStr(<<" ", "x", "\n">>) }

\* os.getenv("GROQ_API_KEY")
KeyValues == { None, EmptyStr, JStr(<<"g","s","k">>) }

\* ------------------------------------------------------------------ state

Init ==
    /\ GROQ_API_KEY \in KeyValues
    /\ client = IF Truthy(GROQ_API_KEY) THEN Groq ELSE None
    /\ pc = "idle"
    /\ request = [method |-> "GET", code |-> None]
    /\ user_code = EmptyStr
    /\ reply = NoContent
    /\ ai_output = None
    /\ ai_result = None
    /\ context = InitialContext
    /\ calls = 0
    /\ outcome = "idle"
    /\ served = 0

\* home up to the validation: a GET renders the initial context
HomeGet ==
    /\ pc = "idle"
    /\ served < MaxRequests
    /\ \E code \in Codes : request' = [method |-> "GET", code |-> code]
    /\ user_code' = EmptyStr
    /\ context' = InitialContext
    /\ calls' = 0
    /\ outcome' = "get"
    /\ pc' = "rendered"
    /\ reply' = NoContent
    /\ ai_output' = None
    /\ ai_result' = None
    /\ UNCHANGED <<GROQ_API_KEY, client, served>>

\* home for a POST, up to the rendering or up to the model call (which
\* blocks until ClientReturns, ClientMalformed or ClientRaises)
HomePost ==
    /\ pc = "idle"
    /\ served < MaxRequests
    /\ \E code \in Codes :
         LET req == [method |-> "POST", code |-> code]
             stripped == JStr(Strip(PostGet(req).s))
             branch == Validate(stripped, GROQ_API_KEY, client)
             ctx == [InitialContext EXCEPT !.user_code = stripped]
         IN  /\ request' = req
             /\ user_code' = stripped
             /\ context' =
                  CASE branch = "empty-input" ->
                         [ctx EXCEPT !.error = EmptyInputMessage]
                    [] branch = "misconfigured" ->
                         [ctx EXCEPT !.error = MisconfiguredMessage]
                    [] OTHER -> ctx
             /\ calls' = IF branch = "call" THEN 1 ELSE 0
             /\ outcome' = IF branch = "call" THEN "pending" ELSE branch
             /\ pc' = IF branch = "call" THEN "calling" ELSE "rendered"
    /\ reply' = NoContent
    /\ ai_output' = None
    /\ ai_result' = None
    /\ UNCHANGED <<GROQ_API_KEY, client, served>>

\* the call returns a response with a first choice: lines 123-131
ClientReturns ==
    /\ pc = "calling"
    /\ \E r \in Replies :
         /\ reply' = r
         /\ ai_output' = Content(r)
         /\ ai_result' = parse_ai_response(Content(r))
         /\ context' = AfterCall(context, parse_ai_response(Content(r)))
    /\ outcome' = "returned"
    /\ pc' = "rendered"
    /\ UNCHANGED <<GROQ_API_KEY, client, request, user_code, calls, served>>

\* the call returns a response without choices: line 123 raises IndexError
ClientMalformed ==
    /\ pc = "calling"
    /\ context' = ApiErrorContext(context, <<"list index out of range">>)
    /\ outcome' = "malformed"
    /\ pc' = "rendered"
    /\ UNCHANGED <<GROQ_API_KEY, client, request, user_code, reply,
                   ai_output, ai_result, calls, served>>

\* a slip: a failed call is issued again
ClientRaises_Retries ==
    /\ pc = "calling"
    /\ calls < 3
    /\ calls' = calls + 1
    /\ UNCHANGED <<GROQ_API_KEY, client, pc, request, user_code, reply,
                   ai_output, ai_result, context, outcome, served>>

\* the call raises
ClientRaises ==
    /\ pc = "calling"
    /\ \E desc \in CallErrors : context' = ApiErrorContext(context, desc)
    /\ outcome' = "raised"
    /\ pc' = "rendered"
    /\ UNCHANGED <<GROQ_API_KEY, client, request, user_code, reply,
                   ai_output, ai_result, calls, served>>

\* return render(request, "home.html", context): the request is over
Render ==
    /\ pc = "rendered"
    /\ pc' = "idle"
    /\ served' = served + 1
    /\ UNCHANGED <<GROQ_API_KEY, client, request, user_code, reply,
                   ai_output, ai_result, context, calls, outcome>>

Next ==
    \/ HomeGet
    \/ HomePost
    \/ ClientReturns
    \/ ClientMalformed
    \/ ClientRaises
    \/ Render

Spec == Init /\ [][Next]_vars

\* ------------------------------------------------------------------ properties

\* json.loads applied to what parse_ai_response hands it for a str output
Decoded(output) == json_loads(StripFence(Strip(output.s)))

\* the model call returned a message whose content is a str
ReturnedText == outcome = "returned" /\ ai_output.t = "str"

\* v is a dict that has the five content fields
HasContentFields(v) ==
    /\ v.t = "dict"
    /\ \A i \in 1..Len(expected_keys) : HasKey(v, expected_keys[i])

\* v is a dict whose five content fields are [], [], [], "", ""
ContentFieldsEmpty(v) ==
    /\ HasContentFields(v)
    /\ Get(v, K_syntax_errors) = EmptyList
    /\ Get(v, K_logical_errors) = EmptyList
    /\ Get(v, K_key_improvements) = EmptyList
    /\ Get(v, K_fixed_code) = EmptyStr
    /\ Get(v, K_explanation) = EmptyStr

\* v is a dict with an "error" that is a non-empty str
HasErrorMessage(v) ==
    /\ v.t = "dict"
    /\ HasKey(v, K_error)
    /\ Get(v, K_error).t = "str"
    /\ Len(Get(v, K_error).s) > 0

\* v is a dict with a truthy "error"
HasNonEmptyError(v) ==
    v.t = "dict" /\ HasKey(v, K_error) /\ Truthy(Get(v, K_error))

KeySet(d) == { d.keys[i] : i \in 1..Len(d.keys) }

ExpectedKeySet == { expected_keys[i] : i \in 1..Len(expected_keys) }

\* C1 as stated: when the text of the response is not valid JSON, the
\* returned record has a non-empty error, the five content fields at their
\* empty defaults, and raw equal to the trimmed original text.
C1_RawIsTrimmedText ==
    (ReturnedText /\ ~Decoded(ai_output).ok) =>
        /\ HasErrorMessage(ai_result)
        /\ ContentFieldsEmpty(ai_result)
        /\ HasKey(ai_result, K_raw)
        /\ Get(ai_result, K_raw) = JStr(Strip(ai_output.s))

\* C1 amended: when the text of the response is not valid JSON, the returned
\* record has a non-empty error, the five content fields at their empty
\* defaults, and raw equal to the original text exactly as received
\* (surrounding whitespace and fence markers kept).
C1_DecodeFailureRecord ==
    (ReturnedText /\ ~Decoded(ai_output).ok) =>
        /\ HasErrorMessage(ai_result)
        /\ ContentFieldsEmpty(ai_result)
        /\ HasKey(ai_result, K_raw)
        /\ Get(ai_result, K_raw) = ai_output
        /\ KeySet(ai_result) = ExpectedKeySet \cup {K_error, K_raw}

\* a response that is not valid JSON and has whitespace around it
C1_Witness ==
    /\ ReturnedText
    /\ ~Decoded(ai_output).ok
    /\ Strip(ai_output.s) # ai_output.s
    /\ Get(ai_result, K_raw) = ai_output

\* the reply is a fenced block, tagged or untagged, closed by its marker
Fenced == outcome = "returned" /\ reply.style \in {"json", "plain"}

\* the reply has no fence marker at all
Unfenced ==
    /\ outcome = "returned"
    /\ reply.style = "bare"
    /\ ~StartsWith(Strip(ai_output.s), Fence)

\* parse_ai_response fails on the text (either except clause)
NormalizationFailed(output) ==
    \/ ~Decoded(output).ok
    \/ EnsureKeys(Decoded(output).val, 1).raised

\* a text without fence marker loses nothing but surrounding whitespace
UnfencedKeepsText ==
    Unfenced =>
        ai_result = Normalize(json_loads(Strip(ai_output.s)), ai_output)

\* C2 as stated: a text wrapped in a fenced block of either style gives the
\* same result as the text unwrapped, and a text without fence marker is
\* parsed with nothing but surrounding whitespace removed.
C2_FencedSameAsUnwrapped ==
    /\ Fenced => ai_result = parse_ai_response(JStr(reply.body))
    /\ UnfencedKeepsText

\* the untagged marker followed at once by a text that begins with "json"
\* reads as the tagged marker
ReadsAsTagged ==
    /\ reply.style = "plain"
    /\ reply.sep = <<>>
    /\ StartsWith(reply.body, <<"j","s","o","n">>)

\* C2 amended: a text that does not itself begin with a fence marker,
\* wrapped in a fenced block of either style (for the untagged style: not
\* beginning with "json" right after the marker), gives the same result as
\* the text unwrapped, except that on failure raw is the wrapped text as
\* received; and a text without fence marker is parsed with nothing but
\* surrounding whitespace removed.
C2_FencedSameExceptRaw ==
    /\ (Fenced /\ ~StartsWith(Strip(reply.body), Fence) /\ ~ReadsAsTagged) =>
          LET unwrapped == parse_ai_response(JStr(reply.body))
          IN  IF NormalizationFailed(JStr(reply.body))
              THEN ai_result = SetItem(unwrapped, K_raw, ai_output)
              ELSE ai_result = unwrapped
    /\ UnfencedKeepsText

\* a five-key object in a tagged block with whitespace around it
C2_Witness ==
    /\ Fenced
    /\ reply.style = "json"
    /\ reply.lead # <<>>
    /\ reply.sep # <<>>
    /\ reply.body = Dumps(SubDict(1..5, 5))
    /\ ai_result = SubDict(1..5, 5)

\* C3: when the response decodes to an object, every key of the object
\* keeps its decoded value, each missing key among syntax_errors,
\* logical_errors, key_improvements is [], each missing key among fixed_code,
\* explanation is "", nothing else is added, and with no key missing the
\* result is the decoded object.
C3_MissingKeysFilled ==
    (ReturnedText /\ Decoded(ai_output).ok
       /\ Decoded(ai_output).val.t = "dict") =>
        LET d == Decoded(ai_output).val
        IN  /\ ai_result.t = "dict"
            /\ KeySet(ai_result) = KeySet(d) \cup ExpectedKeySet
            /\ \A k \in KeySet(d) : Get(ai_result, k) = Get(d, k)
            /\ \A k \in {K_syntax_errors, K_logical_errors,
                         K_key_improvements} :
                   ~HasKey(d, k) => Get(ai_result, k) = EmptyList
            /\ \A k \in {K_fixed_code, K_explanation} :
                   ~HasKey(d, k) => Get(ai_result, k) = EmptyStr
            /\ ExpectedKeySet \subseteq KeySet(d) => ai_result = d

\* an object with a wrongly typed key and an unexpected key, missing keys of
\* both kinds
C3_Witness ==
    /\ ReturnedText
    /\ Decoded(ai_output).ok
    /\ Decoded(ai_output).val =
         JDict(<<K_syntax_errors, K_fixed_code, <<"x">>>>,
               <<JNum(5), JList(<<JNum(-1)>>), None>>)
    /\ Get(ai_result, K_syntax_errors) = JNum(5)
    /\ Get(ai_result, K_explanation) = EmptyStr
    /\ Get(ai_result, K_logical_errors) = EmptyList

\* C4: whatever the content of the response (any text, or None),
\* parse_ai_response returns a record that has all five content fields, and
\* when the failure is not a decode failure the record is the failure record
\* with a non-empty error.
C4_AlwaysARecord ==
    outcome = "returned" =>
        /\ HasContentFields(ai_result)
        /\ (ai_output.t # "str"
              \/ (Decoded(ai_output).ok
                    /\ Decoded(ai_output).val.t # "dict")) =>
               /\ HasErrorMessage(ai_result)
               /\ ContentFieldsEmpty(ai_result)
               /\ Get(ai_result, K_raw) = ai_output

\* the request is a POST whose trimmed code is empty
EmptyCode ==
    /\ outcome # "idle"
    /\ request.method = "POST"
    /\ Strip(PostGet(request).s) = <<>>

\* the request is a POST whose trimmed code is not empty
SomeCode ==
    /\ outcome # "idle"
    /\ request.method = "POST"
    /\ Strip(PostGet(request).s) # <<>>

Configured == Truthy(GROQ_API_KEY) /\ Truthy(client)

\* C5: a POST with empty or whitespace-only code never calls the model and
\* ends in the empty-input state, configured or not.
C5_EmptyInputNoCall ==
    EmptyCode =>
        /\ calls = 0
        /\ pc # "calling"
        /\ outcome = "empty-input"
        /\ context.error = EmptyInputMessage
        /\ context.ai_result = None

\* whitespace-only code sent to a process without API key
C5_Witness ==
    /\ EmptyCode
    /\ PostGet(request).s # <<>>
    /\ ~Configured
    /\ pc = "rendered"
    /\ context.error = EmptyInputMessage

\* C6: a POST with non-empty code to a process without API key or client
\* never calls the model and ends in the misconfigured state; the
\* configuration never changes, so this is so for every request.
C6_MisconfiguredNoCall ==
    /\ [](~Configured /\ SomeCode =>
            /\ calls = 0
            /\ pc # "calling"
            /\ outcome = "misconfigured"
            /\ context.error = MisconfiguredMessage
            /\ context.ai_result = None)
    /\ [][GROQ_API_KEY' = GROQ_API_KEY /\ client' = client]_vars

\* the second request of an unconfigured process, with non-empty code
C6_Witness ==
    /\ ~Configured
    /\ SomeCode
    /\ served >= 1
    /\ pc = "rendered"
    /\ context.error = MisconfiguredMessage

\* C7: when the call fails, context.error embeds the failure, debug holds a
\* trace and ai_result is the fallback record; in every other outcome debug
\* is None.
C7_DebugOnlyOnCallFailure ==
    /\ outcome \in {"raised", "malformed"} =>
          /\ context.error.t = "str"
          /\ Len(context.error.s) > 0
          /\ context.debug # None
          /\ HasErrorMessage(context.ai_result)
          /\ ContentFieldsEmpty(context.ai_result)
    /\ outcome \in {"get", "empty-input", "misconfigured", "returned"} =>
          context.debug = None

\* C8: when the call succeeds, context.ai_result is what parse_ai_response
\* returned, and context.error is its error when that is non-empty and None
\* otherwise.
C8_ResultAttached ==
    outcome = "returned" =>
        /\ context.ai_result = ai_result
        /\ HasNonEmptyError(ai_result) =>
               context.error = Get(ai_result, K_error)
        /\ ~HasNonEmptyError(ai_result) => context.error = None
        /\ context.error # None <=> HasNonEmptyError(ai_result)

\* C9: a request calls the model at most once: once when it is a POST with
\* non-empty code to a configured process, never otherwise; and no outcome
\* of the call leads to another call.
C9_AtMostOneCall ==
    /\ [](/\ calls \in {0, 1}
          /\ outcome # "idle" =>
               (calls = 1 <=> (SomeCode /\ Configured))
          /\ calls = 1 <=>
               outcome \in {"pending", "returned", "malformed", "raised"})
    /\ [][pc = "calling" => (pc' = "rendered" /\ calls' = calls)]_vars

\* a call that failed and was not repeated
C9_Witness ==
    /\ outcome = "raised"
    /\ pc = "idle"
    /\ served = MaxRequests
    /\ calls = 1

\* C10 as stated: when the response decodes to an object, whatever its
\* keys, the record has no non-empty error and no raw, and context.error
\* stays None.
C10_NoErrorOnSuccess ==
    (ReturnedText /\ Decoded(ai_output).ok
       /\ Decoded(ai_output).val.t = "dict") =>
        /\ ~HasNonEmptyError(ai_result)
        /\ ~HasKey(ai_result, K_raw)
        /\ context.error = None

\* C10 amended: when the response decodes to an object that itself has
\* neither an error key nor a raw key, the record has no error and no raw,
\* and context.error stays None.
C10_NoErrorUnlessDecoded ==
    (ReturnedText /\ Decoded(ai_output).ok
       /\ Decoded(ai_output).val.t = "dict"
       /\ ~HasKey(Decoded(ai_output).val, K_error)
       /\ ~HasKey(Decoded(ai_output).val, K_raw)) =>
        /\ ~HasKey(ai_result, K_error)
        /\ ~HasKey(ai_result, K_raw)
        /\ context.ai_result = ai_result
        /\ context.error = None

\* an object with one key decoded and the rest filled in
C10_Witness ==
    /\ ReturnedText
    /\ Decoded(ai_output).ok
    /\ Decoded(ai_output).val = SubDict({5}, 5)
    /\ ai_result.keys = <<K_explanation, K_syntax_errors, K_logical_errors,
                          K_key_improvements, K_fixed_code>>
    /\ context.error = None

====
